---- MODULE Spec2Model ----
(***************************************************************************)
(* Model of canvas_import.py: a Streamlit session that extracts text from  *)
(* uploaded files, asks a formatting service for HTML, keeps the result in *)
(* session state and pushes it to a Canvas course (module, wiki page,      *)
(* module item).                                                           *)
(*                                                                         *)
(* Strings that the code manipulates character by character (titles) are  *)
(* sequences of one-character strings; longer texts are sequences of       *)
(* lexemes.  The empty sequence is the empty string (falsy in Python).     *)
(***************************************************************************)
EXTENDS Integers, Sequences, FiniteSets, TLC

VARIABLES module_title, page_title, uploaded_files, ai_generated_html,
          secrets, errors, gen, modules, pages, items, runs,
          fn_arg, fn_out, procs

\* the session and the remote course
session == <<module_title, page_title, uploaded_files, ai_generated_html,
             secrets, errors, gen, runs>>

store == <<modules, pages, items>>

\* fn_arg, fn_out: argument and result of a pure function under test;
\* procs: the push runs in flight when several sessions push at once
aux == <<fn_arg, fn_out, procs>>

vars == <<module_title, page_title, uploaded_files, ai_generated_html,
          secrets, errors, gen, modules, pages, items, runs,
          fn_arg, fn_out, procs>>

\* Number of "Push to Canvas" clicks explored by Spec.
MaxRuns == 2

\* Number of "Push to Canvas" clicks explored by SpecShort, the shorter
\* exploration used for properties of a single run.
MaxRunsShort == 1

-----------------------------------------------------------------------------
(* Input domains of the session                                            *)

\* the text inputs start empty; the user types one of these
ModuleTitles == {<<"W", "1">>, <<"w", "1">>}

PageTitles == {<<"I", " ", "P">>, <<"i", " ", "p">>}

GoodDocx == [ext |-> "docx", readable |-> TRUE, content |-> <<"T">>]

BadDocx == [ext |-> "docx", readable |-> FALSE, content |-> <<>>]

\* the uploader starts empty; the user uploads one file or removes it again
Uploads == {<<>>, <<GoodDocx>>, <<BadDocx>>}

SecretConfigs ==
    {[OPENAI_API_KEY |-> k, CANVAS_DOMAIN |-> d, CANVAS_ID |-> c, CANVAS_ACCESS_TOKEN |-> t] :
        k \in {"", "sk"}, d \in {"", "canvas"}, c \in {"", "42"}, t \in {"", "tok"}}

Statuses == {200, 201, 202, 500}

None == 0

-----------------------------------------------------------------------------
(* Pure helpers                                                            *)

UpperCase == <<"A", "B", "C", "D", "E", "F", "G", "H", "I", "J", "K", "L", "M",
               "N", "O", "P", "Q", "R", "S", "T", "U", "V", "W", "X", "Y", "Z">>

LowerCase == <<"a", "b", "c", "d", "e", "f", "g", "h", "i", "j", "k", "l", "m",
               "n", "o", "p", "q", "r", "s", "t", "u", "v", "w", "x", "y", "z">>

\* str.lower() on one character
LowerChar(c) ==
    IF \E i \in DOMAIN UpperCase : UpperCase[i] = c
    THEN LowerCase[CHOOSE i \in DOMAIN UpperCase : UpperCase[i] = c]
    ELSE c

\* str.lower()
Lower(s) == [i \in DOMAIN s |-> LowerChar(s[i])]

\* page_title.lower().replace(" ", "-")
Slug(title) == [i \in DOMAIN title |-> IF Lower(title)[i] = " " THEN "-" ELSE Lower(title)[i]]

RECURSIVE Join(_)
\* "\n".join(texts)
Join(texts) ==
    IF texts = <<>> THEN <<>>
    ELSE IF Len(texts) = 1 THEN texts[1]
    ELSE texts[1] \o <<"\n">> \o Join(Tail(texts))

\* text appended for one file by extract_text_from_uploaded_files
ExtractOne(file) ==
    IF file.ext = "docx"
    THEN IF file.readable THEN file.content ELSE <<"[Error reading DOCX]">>
    ELSE IF file.ext = "pdf"
    THEN IF file.readable THEN file.content ELSE <<"[Error reading PDF]">>
    ELSE IF file.readable THEN file.content ELSE <<"[Error reading file]">>

extract_text_from_uploaded_files(files) ==
    Join([i \in DOMAIN files |-> ExtractOne(files[i])])

\* uploaded_text = extract_text_from_uploaded_files(uploaded_files) if uploaded_files else ""
uploaded_text == IF uploaded_files # <<>> THEN extract_text_from_uploaded_files(uploaded_files) ELSE <<>>

\* f"Module: {module_title}\nPage Title: {page_title}\nContent: {uploaded_text}"
Prompt(mt, pt, text) ==
    <<"Module: ">> \o mt \o <<"\nPage Title: ">> \o pt \o <<"\nContent: ">> \o text

\* the backtick character (the lexer does not accept it inside a string)
Backtick == "BACKTICK"

RECURSIVE LStrip(_)
LStrip(s) == IF s # <<>> /\ Head(s) = Backtick THEN LStrip(Tail(s)) ELSE s

RECURSIVE RStrip(_)
RStrip(s) == IF s # <<>> /\ s[Len(s)] = Backtick THEN RStrip(SubSeq(s, 1, Len(s) - 1)) ELSE s

\* content.strip() of the backtick character
Strip(s) == RStrip(LStrip(s))

\* faulty variant: a replacement fragment that is itself a placeholder token
TransformRulesNested ==
    <<[token |-> <<"[", "begin paragraph", "]">>, fragment |-> <<"<p>">>],
      [token |-> <<"[", "end paragraph", "]">>, fragment |-> <<"[", "begin paragraph", "]">>]>>

\* the Markup Transformer of the design: ordered rules placeholder token ->
\* markup fragment; a text is a sequence of symbols, a token three of them
TransformRules ==
    <<[token |-> <<"[", "begin paragraph", "]">>, fragment |-> <<"<p>">>],
      [token |-> <<"[", "end paragraph", "]">>, fragment |-> <<"</p>">>]>>

RECURSIVE ReplaceAll(_, _, _)
\* literal substring replacement, left to right, occurrences not overlapping
ReplaceAll(text, token, fragment) ==
    IF Len(text) < Len(token) THEN text
    ELSE IF SubSeq(text, 1, Len(token)) = token
    THEN fragment \o ReplaceAll(SubSeq(text, Len(token) + 1, Len(text)), token, fragment)
    ELSE <<Head(text)>> \o ReplaceAll(Tail(text), token, fragment)

RECURSIVE ApplyRules(_, _)
ApplyRules(text, rules) ==
    IF rules = <<>> THEN text
    ELSE ApplyRules(ReplaceAll(text, Head(rules).token, Head(rules).fragment), Tail(rules))

Transform(text) == ApplyRules(text, TransformRules)

-----------------------------------------------------------------------------
(* Formatting service (OpenAI chat completion)                             *)

FormatterContents ==
    {<<Backtick>>,
     <<Backtick, "<p>", "Hi", "</p>", Backtick>>,
     <<"[", "begin paragraph", "]", "Hi", "[", "end paragraph", "]">>}

\* what requests.post returns: a status and, on success, a message content
FormatterResponses ==
    {[status |-> 200, content |-> c] : c \in FormatterContents} \cup
    {[status |-> s, content |-> <<>>] : s \in Statuses \ {200}}

\* value is the returned markup (the empty sequence stands for None and for "")
get_ai_generated_html(key, resp) ==
    IF key = ""
    THEN [outcome |-> "no_key", value |-> <<>>, errors |-> <<"Missing OpenAI API Key">>]
    ELSE IF resp.status = 200
    THEN [outcome |-> "returned", value |-> Strip(resp.content), errors |-> <<>>]
    ELSE [outcome |-> "api_error", value |-> <<>>, errors |-> <<"OpenAI API Error">>]

-----------------------------------------------------------------------------
(* Canvas API.  A request is answered with a status and a JSON body; a     *)
(* 2xx answer to a create request means the course now holds the entity.   *)
(* Transport exceptions raised by requests.post are not modelled.          *)

Is2xx(status) == status >= 200 /\ status < 300

RespClass(resp) == IF Is2xx(resp.status) THEN "2xx" ELSE "non2xx"

\* responses to POST .../modules: the created module's id may be missing from the body
ModuleResponses ==
    {[status |-> s, has_id |-> h] : s \in Statuses, h \in BOOLEAN}

\* the remote store assigns the page url; it need not be the local slug
RemoteUrls(title) == {Slug(title), Slug(title) \o <<"-", "2">>}

\* responses to POST .../pages: json is the shape of the body
PageResponses(title) ==
    {[status |-> s, json |-> j, url |-> <<>>] : s \in Statuses, j \in {"empty", "no_url"}} \cup
    {[status |-> s, json |-> "url", url |-> u] : s \in Statuses, u \in RemoteUrls(title)}

\* responses to POST .../modules/{id}/items
ItemResponses == {[status |-> s] : s \in Statuses}

\* what the answer to POST .../modules was, as the remote sent it
ModuleAnswer(resp) ==
    IF resp.status \in {200, 201}
    THEN IF resp.has_id THEN "created_with_id" ELSE "created_no_id"
    ELSE IF Is2xx(resp.status) THEN "other_2xx" ELSE "refused"

\* faulty variant: any 2xx status counts as created
create_module_any2xx(resp, new_id) ==
    IF Is2xx(resp.status)
    THEN IF resp.has_id THEN new_id ELSE None
    ELSE None

\* return value of create_module; new_id is the id the store assigned
create_module(resp, new_id) ==
    IF resp.status \in {200, 201}
    THEN IF resp.has_id THEN new_id ELSE None
    ELSE None

NoPageData == [kind |-> "none", url |-> <<>>]

\* return value of create_wiki_page
create_wiki_page(resp) ==
    IF resp.status \in {200, 201}
    THEN [kind |-> resp.json, url |-> resp.url]
    ELSE NoPageData

\* "not page_data": None and the empty dict are falsy
PageDataFalsy(page_data) == page_data.kind \in {"none", "empty"}

\* faulty variant: the local slug is used whatever the response carries
PageUrlSlugOnly(page_data, title) == Slug(title)

\* page_data.get("url") or page_title.lower().replace(" ", "-")
PageUrl(page_data, title) ==
    IF page_data.url # <<>> THEN page_data.url ELSE Slug(title)

\* faulty variant: the course refuses a second module of a name it already holds
StoreModuleUnique(resp, name) ==
    IF Is2xx(resp.status) /\ \A i \in DOMAIN modules : modules[i].name # name
    THEN Append(modules, [id |-> Len(modules) + 1, name |-> name])
    ELSE modules

\* remote effect of an accepted create request
StoreModule(resp, name) ==
    IF Is2xx(resp.status)
    THEN Append(modules, [id |-> Len(modules) + 1, name |-> name])
    ELSE modules

StorePage(resp, title, body) ==
    IF Is2xx(resp.status)
    THEN Append(pages, [title |-> title, body |-> body])
    ELSE pages

StoreItem(resp, module_id, title, page_url) ==
    IF Is2xx(resp.status)
    THEN Append(items, [module_id |-> module_id, title |-> title, page_url |-> page_url])
    ELSE items

-----------------------------------------------------------------------------
(* The script: state after construction and one action per interaction     *)

NoGen == [outcome |-> "none", resp |-> "none", prompt |-> <<>>]

Init ==
    /\ module_title = <<>>
    /\ page_title = <<>>
    /\ uploaded_files = <<>>
    /\ ai_generated_html = <<>>
    /\ secrets \in SecretConfigs
    /\ errors = <<>>
    /\ gen = NoGen
    /\ modules = <<>>
    /\ pages = <<>>
    /\ items = <<>>
    /\ runs = <<>>
    /\ fn_arg = <<>>
    /\ fn_out = <<>>
    /\ procs = <<>>

\* a widget change reruns the script with no button pressed
SetModuleTitle ==
    \E t \in ModuleTitles :
        /\ t # module_title
        /\ module_title' = t
        /\ errors' = <<>>
        /\ gen' = NoGen
        /\ UNCHANGED <<page_title, uploaded_files, ai_generated_html, secrets,
                       modules, pages, items, runs>>
        /\ UNCHANGED aux

SetPageTitle ==
    \E t \in PageTitles :
        /\ t # page_title
        /\ page_title' = t
        /\ errors' = <<>>
        /\ gen' = NoGen
        /\ UNCHANGED <<module_title, uploaded_files, ai_generated_html, secrets,
                       modules, pages, items, runs>>
        /\ UNCHANGED aux

UploadFiles ==
    \E f \in Uploads :
        /\ f # uploaded_files
        /\ uploaded_files' = f
        /\ errors' = <<>>
        /\ gen' = NoGen
        /\ UNCHANGED <<module_title, page_title, ai_generated_html, secrets,
                       modules, pages, items, runs>>
        /\ UNCHANGED aux

\* the "Generate HTML" button
ClickGenerate ==
    \E resp \in FormatterResponses :
        LET prompt == Prompt(module_title, page_title, uploaded_text)
            r == get_ai_generated_html(secrets.OPENAI_API_KEY, resp)
        IN  /\ IF module_title = <<>> \/ page_title = <<>> \/ uploaded_text = <<>>
               THEN /\ errors' = <<"Please provide all inputs">>
                    /\ gen' = [outcome |-> "rejected", resp |-> "none", prompt |-> <<>>]
                    /\ UNCHANGED ai_generated_html
               ELSE IF r.value # <<>>
               THEN /\ errors' = r.errors
                    /\ gen' = [outcome |-> "ok", resp |-> RespClass(resp), prompt |-> prompt]
                    /\ ai_generated_html' = r.value
               ELSE /\ errors' = r.errors \o <<"AI failed to generate HTML content.">>
                    /\ gen' = [outcome |-> IF r.outcome = "returned" THEN "empty" ELSE r.outcome,
                               resp |-> IF r.outcome = "no_key" THEN "none" ELSE RespClass(resp),
                               prompt |-> prompt]
                    /\ UNCHANGED ai_generated_html
            /\ UNCHANGED <<module_title, page_title, uploaded_files, secrets,
                           modules, pages, items, runs>>
            /\ UNCHANGED aux

\* what the run knows before its first request
RunStart ==
    [module_title |-> module_title, page_title |-> page_title, html |-> ai_generated_html,
     body |-> <<>>, pages_before |-> Len(pages),
     mod_existed |-> \E i \in DOMAIN modules : Lower(modules[i].name) = Lower(module_title),
     slug_existed |-> \E i \in DOMAIN pages : Slug(pages[i].title) = Slug(page_title),
     reqs |-> <<>>, resps |-> <<>>, mod_answer |-> "none", mod_id |-> None, resp_url |-> <<>>, page_url |-> <<>>,
     outcome |-> "started", errors |-> <<>>]

\* the requests a run issued and how it ended; body is the page body it sent, if any
RunEnd(reqs, resps, answer, mod_id, resp_url, page_url, outcome, errs) ==
    [RunStart EXCEPT !.reqs = reqs, !.resps = resps, !.mod_answer = answer,
                     !.mod_id = mod_id, !.resp_url = resp_url,
                     !.page_url = page_url, !.outcome = outcome, !.errors = errs,
                     !.body = IF Len(reqs) >= 2 THEN ai_generated_html ELSE <<>>]

\* outcome of a run: the store it leaves and its record
Outcome(ms, ps, is, run) == [modules |-> ms, pages |-> ps, items |-> is, run |-> run]

\* faulty variant: the link request is issued a second time
LinkStepTwice(mr, pr, lr) ==
    LET mod_id == create_module(mr, Len(modules) + 1)
        page_data == create_wiki_page(pr)
        page_url == PageUrl(page_data, page_title)
        item == [module_id |-> mod_id, title |-> page_title, page_url |-> page_url]
    IN  Outcome(StoreModule(mr, module_title),
                StorePage(pr, page_title, ai_generated_html),
                IF Is2xx(lr.status) THEN items \o <<item, item>> ELSE items,
                RunEnd(<<"create_module", "create_page", "create_module_item",
                         "create_module_item">>,
                       <<RespClass(mr), RespClass(pr), RespClass(lr), RespClass(lr)>>,
                       ModuleAnswer(mr), mod_id, page_data.url, page_url,
                       "completed", <<>>))

\* lines 175-176: the link request; its response is not inspected
LinkStep(mr, pr, lr) ==
    LET mod_id == create_module(mr, Len(modules) + 1)
        page_data == create_wiki_page(pr)
        page_url == PageUrl(page_data, page_title)
    IN  Outcome(StoreModule(mr, module_title),
                StorePage(pr, page_title, ai_generated_html),
                StoreItem(lr, mod_id, page_title, page_url),
                RunEnd(<<"create_module", "create_page", "create_module_item">>,
                       <<RespClass(mr), RespClass(pr), RespClass(lr)>>, ModuleAnswer(mr),
                       mod_id, page_data.url, page_url,
                       "completed", <<>>))

\* faulty variant: a failed page step takes the run's module out of the course
PageStepRollback(mr, pr) ==
    LET mod_id == create_module(mr, Len(modules) + 1)
        page_data == create_wiki_page(pr)
    IN  IF PageDataFalsy(page_data)
        THEN {Outcome(modules, pages, items,
                      RunEnd(<<"create_module", "create_page">>, <<RespClass(mr), RespClass(pr)>>,
                             ModuleAnswer(mr), mod_id, <<>>, <<>>, "page_failed",
                             <<"Page creation failed.">>))}
        ELSE {LinkStep(mr, pr, lr) : lr \in ItemResponses}

\* lines 170-173: the page request and the check of its result
PageStep(mr, pr) ==
    LET mod_id == create_module(mr, Len(modules) + 1)
        page_data == create_wiki_page(pr)
    IN  IF PageDataFalsy(page_data)
        THEN {Outcome(StoreModule(mr, module_title),
                      StorePage(pr, page_title, ai_generated_html), items,
                      RunEnd(<<"create_module", "create_page">>, <<RespClass(mr), RespClass(pr)>>,
                             ModuleAnswer(mr), mod_id, <<>>, <<>>, "page_failed",
                             <<"Page creation failed.">>))}
        ELSE {LinkStep(mr, pr, lr) : lr \in ItemResponses}

\* lines 165-168: the module request and the check of its result
ModuleStep(mr) ==
    LET mod_id == create_module(mr, Len(modules) + 1)
    IN  IF mod_id = None
        THEN {Outcome(StoreModule(mr, module_title), pages, items,
                      RunEnd(<<"create_module">>, <<RespClass(mr)>>, ModuleAnswer(mr), None,
                             <<>>, <<>>, "module_failed", <<"Module creation failed.">>))}
        ELSE UNION {PageStep(mr, pr) : pr \in PageResponses(page_title)}

\* faulty variant: the push goes to Canvas without looking at the credentials
PushNoCredCheck ==
    UNION {ModuleStep(mr) : mr \in ModuleResponses}

\* the body of "if st.button('Push to Canvas')": every way the run can go
Push ==
    IF secrets.CANVAS_DOMAIN = "" \/ secrets.CANVAS_ID = "" \/ secrets.CANVAS_ACCESS_TOKEN = ""
    THEN {Outcome(modules, pages, items,
                  RunEnd(<<>>, <<>>, "none", None, <<>>, <<>>, "cred_error",
                         <<"Missing required environment variables.">>))}
    ELSE UNION {ModuleStep(mr) : mr \in ModuleResponses}

\* faulty variant: a push forgets the generated HTML
PushClickedClearing(limit) ==
    /\ ai_generated_html # <<>>
    /\ Len(runs) < limit
    /\ \E p \in Push :
        /\ modules' = p.modules
        /\ pages' = p.pages
        /\ items' = p.items
        /\ runs' = Append(runs, p.run)
        /\ errors' = p.run.errors
    /\ ai_generated_html' = <<>>
    /\ UNCHANGED <<module_title, page_title, uploaded_files, secrets, gen>>
    /\ UNCHANGED aux

\* the "Push to Canvas" button, shown only while the session holds generated HTML;
\* limit bounds the number of clicks explored
PushClicked(limit) ==
    /\ ai_generated_html # <<>>
    /\ Len(runs) < limit
    /\ \E p \in Push :
        /\ modules' = p.modules
        /\ pages' = p.pages
        /\ items' = p.items
        /\ runs' = Append(runs, p.run)
        /\ errors' = p.run.errors
    /\ UNCHANGED <<module_title, page_title, uploaded_files, ai_generated_html, secrets, gen>>
    /\ UNCHANGED aux

ClickPush == PushClicked(MaxRuns)

ClickPushShort == PushClicked(MaxRunsShort)

Next ==
    \/ SetModuleTitle
    \/ SetPageTitle
    \/ UploadFiles
    \/ ClickGenerate
    \/ ClickPush

Spec == Init /\ [][Next]_vars

NextShort ==
    \/ SetModuleTitle
    \/ SetPageTitle
    \/ UploadFiles
    \/ ClickGenerate
    \/ ClickPushShort

SpecShort == Init /\ [][NextShort]_vars

\* the session before any interaction, with every secret set
Fresh ==
    /\ module_title = <<>>
    /\ page_title = <<>>
    /\ uploaded_files = <<>>
    /\ ai_generated_html = <<>>
    /\ secrets = [OPENAI_API_KEY |-> "sk", CANVAS_DOMAIN |-> "canvas", CANVAS_ID |-> "42",
                  CANVAS_ACCESS_TOKEN |-> "tok"]
    /\ errors = <<>>
    /\ gen = NoGen
    /\ runs = <<>>

-----------------------------------------------------------------------------
(* Two sessions pushing at once: each request of a run is a step of its    *)
(* own, and the steps of the two runs interleave freely.                   *)

Procs == {1, 2}

\* what a session can hold when its push starts
HeldHtml == {Strip(c) : c \in FormatterContents} \ {<<>>}

InitConc ==
    /\ Fresh
    /\ modules = <<>> /\ pages = <<>> /\ items = <<>>
    /\ fn_arg = <<>>
    /\ fn_out = <<>>
    /\ procs \in [Procs -> [pc : {"module"}, module_title : ModuleTitles, page_title : PageTitles,
                            html : HeldHtml, mod_id : {None}, page_url : {<<>>}]]

\* lines 165-168 for the run of session p
ConcModule(p) ==
    /\ procs[p].pc = "module"
    /\ \E mr \in ModuleResponses :
        LET mod_id == create_module(mr, Len(modules) + 1)
        IN  /\ modules' = StoreModule(mr, procs[p].module_title)
            /\ procs' = [procs EXCEPT ![p].mod_id = mod_id,
                                      ![p].pc = IF mod_id = None THEN "failed" ELSE "page"]
    /\ UNCHANGED <<session, pages, items, fn_arg, fn_out>>

\* lines 170-175 for the run of session p
ConcPage(p) ==
    /\ procs[p].pc = "page"
    /\ \E pr \in PageResponses(procs[p].page_title) :
        LET page_data == create_wiki_page(pr)
        IN  /\ pages' = StorePage(pr, procs[p].page_title, procs[p].html)
            /\ procs' = IF PageDataFalsy(page_data)
                        THEN [procs EXCEPT ![p].pc = "failed"]
                        ELSE [procs EXCEPT ![p].pc = "link",
                                           ![p].page_url = PageUrl(page_data, procs[p].page_title)]
    /\ UNCHANGED <<session, modules, items, fn_arg, fn_out>>

\* line 176 for the run of session p
ConcLink(p) ==
    /\ procs[p].pc = "link"
    /\ \E lr \in ItemResponses :
        items' = StoreItem(lr, procs[p].mod_id, procs[p].page_title, procs[p].page_url)
    /\ procs' = [procs EXCEPT ![p].pc = "done"]
    /\ UNCHANGED <<session, modules, pages, fn_arg, fn_out>>

NextConc == \E p \in Procs : ConcModule(p) \/ ConcPage(p) \/ ConcLink(p)

SpecConc == InitConc /\ [][NextConc]_vars

-----------------------------------------------------------------------------
(* The Markup Transformer on its own                                       *)

\* longest text drawn for the transformer
MaxTextLen == 4

TransformSymbols == {"[", "]", "begin paragraph", "end paragraph", "<p>", "Hello"}

\* "[begin paragraph]Hello[end paragraph]"
Example1 == <<"[", "begin paragraph", "]", "Hello", "[", "end paragraph", "]">>

TransformInputs ==
    UNION {[1..n -> TransformSymbols] : n \in 0..MaxTextLen} \cup {Example1}

InitTransform ==
    /\ Fresh
    /\ modules = <<>> /\ pages = <<>> /\ items = <<>>
    /\ fn_arg \in TransformInputs
    /\ fn_out = <<>>
    /\ procs = <<>>

\* one pass and two passes of the transformer over the drawn text
ApplyTransform ==
    /\ fn_out = <<>>
    /\ fn_out' = <<Transform(fn_arg), Transform(Transform(fn_arg))>>
    /\ UNCHANGED <<session, store, fn_arg, procs>>

NextTransform == ApplyTransform

SpecTransform == InitTransform /\ [][NextTransform]_vars

-----------------------------------------------------------------------------
(* The local slug on its own                                               *)

\* longest page title drawn for the slug
MaxTitleLen == 4

TitleChars == {"I", "i", " ", "p"}

\* "Intro Page"
IntroPage == <<"I", "n", "t", "r", "o", " ", "P", "a", "g", "e">>

TitleInputs == UNION {[1..n -> TitleChars] : n \in 0..MaxTitleLen} \cup {IntroPage}

InitSlug ==
    /\ Fresh
    /\ modules = <<>> /\ pages = <<>> /\ items = <<>>
    /\ fn_arg \in TitleInputs \X TitleInputs
    /\ fn_out = <<>>
    /\ procs = <<>>

\* the fallback of line 175 computed for two page titles
ApplySlug ==
    /\ fn_out = <<>>
    /\ fn_out' = <<Slug(fn_arg[1]), Slug(fn_arg[2])>>
    /\ UNCHANGED <<session, store, fn_arg, procs>>

NextSlug == ApplySlug

SpecSlug == InitSlug /\ [][NextSlug]_vars

-----------------------------------------------------------------------------
(* Properties                                                              *)

LastRun == runs[Len(runs)]

ModulesNamed(name) == {i \in DOMAIN modules : modules[i].name = name}

PagesWithSlug(slug) == {i \in DOMAIN pages : Slug(pages[i].title) = slug}

SameInputs(r1, r2) ==
    /\ r1.module_title = r2.module_title
    /\ r1.page_title = r2.page_title
    /\ r1.html = r2.html

\* all three steps of the run were accepted by the remote store and by the script
RunSucceeded(r) == r.outcome = "completed" /\ r.resps = <<"2xx", "2xx", "2xx">>

\* the run resolved its module and then failed at the page step or at the link step
FailedAfterModule(r) ==
    /\ r.mod_id # None
    /\ \/ r.outcome = "page_failed"
       \/ Len(r.resps) = 3 /\ r.resps[3] = "non2xx"

\* C1: two successive successful runs with the same module name, page title and
\* body leave exactly one module of that name and exactly one page of that slug.
C1_UpsertConvergence ==
    \A i \in DOMAIN runs : \A j \in DOMAIN runs :
        (j = i + 1 /\ RunSucceeded(runs[i]) /\ RunSucceeded(runs[j]) /\ SameInputs(runs[i], runs[j]))
        => /\ Cardinality(ModulesNamed(runs[i].module_title)) = 1
           /\ Cardinality(PagesWithSlug(Slug(runs[i].page_title))) = 1

\* C2: the store never holds two modules whose names are equal ignoring case,
\* and a run whose module name already exists issues no create-module request.
C2_ModuleUniqueness ==
    /\ \A i \in DOMAIN modules : \A j \in DOMAIN modules :
           Lower(modules[i].name) = Lower(modules[j].name) => i = j
    /\ \A k \in DOMAIN runs :
           runs[k].mod_existed => \A n \in DOMAIN runs[k].reqs : runs[k].reqs[n] # "create_module"

\* C3: the store never holds two pages of one slug, and a run that publishes a
\* title whose slug already exists adds no page and leaves its body on that page.
C3_PageUpsert ==
    /\ \A i \in DOMAIN pages : \A j \in DOMAIN pages :
           Slug(pages[i].title) = Slug(pages[j].title) => i = j
    /\ (runs # <<>> /\ LastRun.slug_existed /\ Len(LastRun.resps) >= 2 /\ LastRun.resps[2] = "2xx")
       => /\ Len(pages) = LastRun.pages_before
          /\ \A i \in PagesWithSlug(Slug(LastRun.page_title)) : pages[i].body = LastRun.body

\* C4: after a run that resolved the module and failed at the page or link step,
\* a successful rerun with the same inputs issues no create-module request and
\* leaves one module of that name and one page of that slug.
C4_PartialFailureConvergence ==
    \A i \in DOMAIN runs : \A j \in DOMAIN runs :
        (j = i + 1 /\ FailedAfterModule(runs[i]) /\ RunSucceeded(runs[j]) /\ SameInputs(runs[i], runs[j]))
        => /\ \A n \in DOMAIN runs[j].reqs : runs[j].reqs[n] # "create_module"
           /\ Cardinality(ModulesNamed(runs[j].module_title)) = 1
           /\ Cardinality(PagesWithSlug(Slug(runs[j].page_title))) = 1

PipelineOrder == <<"create_module", "create_page", "create_module_item">>

StepReport == <<"Module creation failed.", "Page creation failed.", "Link creation failed.">>

\* the requests of a run are the pipeline's steps in order, each at most once,
\* and a step is requested only when the step before it succeeded
OrderedAndShortCircuited(r) ==
    /\ Len(r.reqs) <= 3
    /\ r.reqs = SubSeq(PipelineOrder, 1, Len(r.reqs))
    /\ Len(r.reqs) >= 2 => (r.resps[1] = "2xx" /\ r.mod_id # None)
    /\ Len(r.reqs) = 3 => r.resps[2] = "2xx"

\* a run whose request number n was refused reports that step
FailingStepReported(r) ==
    \A n \in DOMAIN r.resps :
        r.resps[n] = "non2xx" => (Len(r.reqs) = n /\ r.errors = <<StepReport[n]>>)

\* C5: every run issues module, page, module-item in this order, stops at the
\* first failing step, retries nothing and reports the step that failed.
C5_ShortCircuitOrdering ==
    \A k \in DOMAIN runs : OrderedAndShortCircuited(runs[k]) /\ FailingStepReported(runs[k])

\* C6: a run whose create-module-item request got a non-2xx status does not end
\* as completed and reports the failure.
C6_LinkFailureSurfaced ==
    \A k \in DOMAIN runs :
        (Len(runs[k].resps) = 3 /\ runs[k].resps[3] = "non2xx")
        => (runs[k].outcome # "completed" /\ runs[k].errors # <<>>)

\* C7: when the formatter answered the current input with a non-2xx status, the
\* error is reported and a push issues no remote write, whatever the session holds.
C7_NoWriteAfterFormattingError ==
    [][/\ (gen' # gen /\ gen'.outcome = "api_error")
          => \E n \in DOMAIN errors' : errors'[n] = "OpenAI API Error"
       /\ (gen.outcome = "api_error" /\ gen.resp = "non2xx" /\ Len(runs') = Len(runs) + 1)
          => runs'[Len(runs')].reqs = <<>>]_vars

\* C8: a create-module request follows, in the same run, a module lookup that
\* succeeded and found the name absent.
C8_CreateOnlyAfterLookup ==
    \A k \in DOMAIN runs : \A n \in DOMAIN runs[k].reqs :
        runs[k].reqs[n] = "create_module"
        => /\ ~runs[k].mod_existed
           /\ \E m \in 1..(n - 1) : runs[k].reqs[m] = "list_modules" /\ runs[k].resps[m] = "2xx"

\* the module item the last run created, when its link request was accepted
LastRunLinked == runs # <<>> /\ Len(LastRun.resps) = 3 /\ LastRun.resps[3] = "2xx"

\* C9: the link request of a run carries the url of the page response whenever
\* that response has one, the local slug only otherwise, and the module item
\* the store then holds references that url and the run's module.
C9_CanonicalPageUrl ==
    /\ \A k \in DOMAIN runs :
           Len(runs[k].reqs) = 3
           => /\ runs[k].resp_url # <<>> => runs[k].page_url = runs[k].resp_url
              /\ runs[k].resp_url = <<>> => runs[k].page_url = Slug(runs[k].page_title)
    /\ LastRunLinked
       => /\ items # <<>>
          /\ items[Len(items)].page_url = LastRun.page_url
          /\ items[Len(items)].module_id = LastRun.mod_id

\* C9 witness: a linked run whose page response carried a url other than the slug
C9_Witness ==
    /\ LastRunLinked
    /\ LastRun.resp_url # <<>>
    /\ LastRun.resp_url # Slug(LastRun.page_title)
    /\ items[Len(items)].page_url = LastRun.resp_url

\* C10: the page body a run sends is the formatter's output passed through the
\* Markup Transformer.
C10_SafetyPassBeforePublish ==
    \A k \in DOMAIN runs :
        Len(runs[k].reqs) >= 2 => runs[k].body = Transform(runs[k].html)

\* C11: a second pass of the transformer changes nothing, whatever the text,
\* and "[begin paragraph]Hello[end paragraph]" becomes "<p>Hello</p>".
C11_TransformIdempotent ==
    fn_out # <<>>
    => /\ fn_out[2] = fn_out[1]
       /\ fn_arg = Example1 => fn_out[1] = <<"<p>", "Hello", "</p>">>

\* C11 witness: the example text, transformed, with a token rewritten
C11_Witness ==
    /\ fn_out # <<>>
    /\ fn_arg = Example1
    /\ fn_out[1] # fn_arg
    /\ fn_out[1] = <<"<p>", "Hello", "</p>">>

RECURSIVE CollapseSpaces(_)
\* runs of spaces made one space
CollapseSpaces(t) ==
    IF Len(t) < 2 THEN t
    ELSE IF t[1] = " " /\ t[2] = " " THEN CollapseSpaces(Tail(t))
    ELSE <<t[1]>> \o CollapseSpaces(Tail(t))

TrimSpaces(t) ==
    LET l == IF t # <<>> /\ Head(t) = " " THEN Tail(t) ELSE t
    IN  IF l # <<>> /\ l[Len(l)] = " " THEN SubSeq(l, 1, Len(l) - 1) ELSE l

\* a title with its letter case and its whitespace normalized
NormalizedTitle(t) == TrimSpaces(CollapseSpaces(Lower(t)))

\* C12: the slug is the title in lower case with each space made a hyphen, two
\* titles equal up to letter case and whitespace normalization have the same
\* slug, and "Intro Page" gives "intro-page".
C12_SlugDeterministic ==
    fn_out # <<>>
    => /\ \A k \in 1..2 :
              /\ Len(fn_out[k]) = Len(fn_arg[k])
              /\ \A i \in DOMAIN fn_arg[k] :
                     fn_out[k][i] = IF fn_arg[k][i] = " " THEN "-" ELSE LowerChar(fn_arg[k][i])
       /\ NormalizedTitle(fn_arg[1]) = NormalizedTitle(fn_arg[2]) => fn_out[1] = fn_out[2]
       /\ fn_arg[1] = IntroPage
          => fn_out[1] = <<"i", "n", "t", "r", "o", "-", "p", "a", "g", "e">>

ExtractionErrorTexts == {"[Error reading DOCX]", "[Error reading PDF]", "[Error reading file]"}

\* C13: when a file cannot be read the generation fails before the formatter is
\* called, and no prompt sent to the formatter holds extraction error text.
C13_ExtractionFailureFailsPipeline ==
    /\ (\E i \in DOMAIN uploaded_files : ~uploaded_files[i].readable)
       => gen.outcome \in {"none", "rejected", "extraction_failed"}
    /\ gen.resp # "none"
       => \A n \in DOMAIN gen.prompt : gen.prompt[n] \notin ExtractionErrorTexts

IsPrefix(a, b) == Len(a) <= Len(b) /\ SubSeq(b, 1, Len(a)) = a

\* the module a run obtained an id for is in the course under the run's name
RunModuleKept(r, ms) ==
    r.mod_id # None => \E i \in DOMAIN ms : ms[i].id = r.mod_id /\ ms[i].name = r.module_title

Requests(r, op) == Cardinality({n \in DOMAIN r.reqs : r.reqs[n] = op})

\* the script took the run past its module step and its page step
ModuleAndPageSucceeded(r) == r.mod_id # None /\ Len(r.resps) >= 2 /\ r.outcome # "page_failed"

LinkAccepted(r) == Len(r.resps) >= 3 /\ r.resps[3] = "2xx"

\* the runs whose link request the course accepted, in order
LinkedRuns == SelectSeq(runs, LinkAccepted)

PagesTitled(title) == {i \in DOMAIN pages : pages[i].title = title}

\* the run of session p is past its module step, or past its page step
PastModule(p) == procs[p].mod_id # None

PastPage(p) == procs[p].pc \in {"link", "done"}

\* C16: two runs in flight for one module name both create it, and two runs for
\* one page title both create the page: the course then holds two of each.
C16_ConcurrentRunsBothCreate ==
    \A p \in DOMAIN procs : \A q \in DOMAIN procs :
        p # q
        => /\ (PastModule(p) /\ PastModule(q) /\ procs[p].module_title = procs[q].module_title)
              => /\ procs[p].mod_id # procs[q].mod_id
                 /\ Cardinality(ModulesNamed(procs[p].module_title)) >= 2
           /\ (PastPage(p) /\ PastPage(q) /\ procs[p].page_title = procs[q].page_title)
              => Cardinality(PagesTitled(procs[p].page_title)) >= 2

\* C16 witness: both runs have created the module of one name and neither has
\* yet asked for its page
C16_Witness ==
    /\ DOMAIN procs = Procs
    /\ procs[1].pc = "page" /\ procs[2].pc = "page"
    /\ procs[1].module_title = procs[2].module_title
    /\ Cardinality(ModulesNamed(procs[1].module_title)) = 2

\* C17: the held HTML changes only in a generation that succeeded with a
\* non-empty result; a failed or rejected generation and a push leave it as it
\* is; a push needs it non-empty and sends exactly it as the page body.
C17_HeldHtmlFrame ==
    [][/\ ai_generated_html' # ai_generated_html
          => /\ gen'.outcome = "ok" /\ gen'.resp = "2xx"
             /\ ai_generated_html' # <<>>
             /\ runs' = runs
       /\ (gen' # gen /\ gen'.outcome \in {"rejected", "no_key", "api_error", "empty"})
          => ai_generated_html' = ai_generated_html
       /\ runs' # runs
          => /\ ai_generated_html # <<>>
             /\ ai_generated_html' = ai_generated_html
             /\ LET r == runs'[Len(runs')]
                IN  /\ r.html = ai_generated_html
                    /\ Requests(r, "create_page") = 1 => r.body = ai_generated_html
                    /\ Len(pages') > Len(pages)
                       => pages'[Len(pages')].body = ai_generated_html]_vars

\* C17 witness: after a push that published the held HTML, a generation was
\* rejected for a missing input and the HTML is still held
C17_Witness ==
    /\ ai_generated_html # <<>>
    /\ gen.outcome = "rejected"
    /\ runs # <<>>
    /\ pages # <<>>
    /\ pages[Len(pages)].body = ai_generated_html

\* C18: a run goes on to the page step exactly when the create-module answer
\* was 200/201 with an id, and then holds that id; after any other answer it
\* stops with the module failure report and no further request, although a
\* 2xx answer means the module is now in the course.
C18_ModuleStepGate ==
    \A k \in DOMAIN runs :
        LET r == runs[k]
        IN  r.reqs # <<>>
            => /\ r.reqs[1] = "create_module"
               /\ Len(r.reqs) >= 2 <=> r.mod_answer = "created_with_id"
               /\ r.mod_answer = "created_with_id"
                  => /\ r.mod_id # None
                     /\ RunModuleKept(r, modules)
               /\ r.mod_answer # "created_with_id"
                  => /\ r.mod_id = None
                     /\ r.outcome = "module_failed"
                     /\ r.errors = <<"Module creation failed.">>
               /\ r.mod_answer \in {"created_no_id", "other_2xx"}
                  => ModulesNamed(r.module_title) # {}

\* C18 witness: a run stopped at the module step by a 2xx answer without an id,
\* with the module in the course
C18_Witness ==
    /\ runs # <<>>
    /\ LastRun.mod_answer = "created_no_id"
    /\ LastRun.outcome = "module_failed"
    /\ Len(modules) = 1
    /\ modules[1].name = LastRun.module_title

\* some Canvas credential is empty (line 159)
CredsMissing ==
    secrets.CANVAS_DOMAIN = "" \/ secrets.CANVAS_ID = "" \/ secrets.CANVAS_ACCESS_TOKEN = ""

\* C19: a push made while the domain, the course id or the access token is empty
\* reports the credential error and sends no request: modules, pages, items and
\* the session's HTML stay as they were; a push with all three set does send one.
C19_NoRequestWithoutCredentials ==
    [][runs' # runs
       => LET r == runs'[Len(runs')]
          IN  /\ CredsMissing
                 => /\ r.reqs = <<>>
                    /\ r.resps = <<>>
                    /\ r.outcome = "cred_error"
                    /\ errors' = <<"Missing required environment variables.">>
                    /\ store' = store
                    /\ ai_generated_html' = ai_generated_html
              /\ ~CredsMissing
                 => /\ r.reqs # <<>>
                    /\ r.outcome # "cred_error"]_vars

\* C19 witness: a push was made with a credential empty, over held HTML
C19_Witness ==
    /\ CredsMissing
    /\ ai_generated_html # <<>>
    /\ runs # <<>>
    /\ LastRun.outcome = "cred_error"
    /\ LastRun.reqs = <<>>
    /\ modules = <<>> /\ pages = <<>> /\ items = <<>>

====
